---- MODULE Spec2Model ----
(***************************************************************************)
(* The two upload handlers of the video backend, handlerUploadVideo and    *)
(* handlerUploadThumbnail, together with getVideoAspectRatio.  Each HTTP   *)
(* request runs in its own goroutine; the goroutines share the record      *)
(* store, the object storage, the local file system and the server process *)
(* itself.  A request is cut into steps at its accesses to that shared     *)
(* state; the purely local statements between two accesses belong to the   *)
(* step of the access that follows them.                                   *)
(*                                                                         *)
(* Strings are kept as sequences of parts: fixed pieces are one part,      *)
(* encoded random bytes are one part per character.                        *)
(***************************************************************************)
EXTENDS Integers, Sequences, FiniteSets, TLC

VARIABLES store, s3, tempFiles, assets, alive, req

vars == <<store, s3, tempFiles, assets, alive, req>>

-----------------------------------------------------------------------------
(* Bounds of the model *)

MaxDim == 3
MaxSeed == 2

(* Two request goroutines: every property below is about one request or    *)
(* about a pair of requests on the same record.                            *)
Reqs == {1, 2}

-----------------------------------------------------------------------------
(* Configuration and the one video record of the store *)

s3Bucket == "bucket"
s3Region == "region"
port == "8091"

Users == {"alice", "bob"}
Owner == "alice"

None == <<>>

InitialVideo ==
    [id |-> "v1", userID |-> Owner, title |-> "title",
     videoURL |-> None, thumbnailURL |-> None]

NoVideo == [id |-> "", userID |-> "", title |-> "",
            videoURL |-> None, thumbnailURL |-> None]

-----------------------------------------------------------------------------
(* Random bytes and their encodings *)

KeyLen == 32

Seeds == 1..MaxSeed

(* The 32 bytes a successful rand.Read leaves in b, one choice per seed. *)
RandBytes(seed) == [i \in 1..KeyLen |-> (seed * 89 + i * 37) % 256]

(* make([]byte, 32): what b holds when rand.Read did not fill it. *)
ZeroBytes == [i \in 1..KeyLen |-> 0]

hextable ==
    <<"0", "1", "2", "3", "4", "5", "6", "7",
      "8", "9", "a", "b", "c", "d", "e", "f">>

RECURSIVE EncodeToString(_)
(* hex.EncodeToString: two characters per byte, high nibble first. *)
EncodeToString(b) ==
    IF b = <<>> THEN <<>>
    ELSE <<hextable[(Head(b) \div 16) + 1], hextable[(Head(b) % 16) + 1]>>
             \o EncodeToString(Tail(b))

encodeURL ==
    <<"A", "B", "C", "D", "E", "F", "G", "H", "I", "J", "K", "L", "M",
      "N", "O", "P", "Q", "R", "S", "T", "U", "V", "W", "X", "Y", "Z",
      "a", "b", "c", "d", "e", "f", "g", "h", "i", "j", "k", "l", "m",
      "n", "o", "p", "q", "r", "s", "t", "u", "v", "w", "x", "y", "z",
      "0", "1", "2", "3", "4", "5", "6", "7", "8", "9", "-", "_">>

RECURSIVE RawURLEncodeToString(_)
(* base64.RawURLEncoding.EncodeToString: 3 bytes give 4 characters, a rest *)
(* of 2 bytes gives 3, a rest of 1 byte gives 2; no padding.               *)
RawURLEncodeToString(b) ==
    IF Len(b) = 0 THEN <<>>
    ELSE IF Len(b) = 1 THEN
        LET v == b[1] * 65536 IN
        <<encodeURL[((v \div 262144) % 64) + 1], encodeURL[((v \div 4096) % 64) + 1]>>
    ELSE IF Len(b) = 2 THEN
        LET v == b[1] * 65536 + b[2] * 256 IN
        <<encodeURL[((v \div 262144) % 64) + 1], encodeURL[((v \div 4096) % 64) + 1],
          encodeURL[((v \div 64) % 64) + 1]>>
    ELSE
        LET v == b[1] * 65536 + b[2] * 256 + b[3] IN
        <<encodeURL[((v \div 262144) % 64) + 1], encodeURL[((v \div 4096) % 64) + 1],
          encodeURL[((v \div 64) % 64) + 1], encodeURL[(v % 64) + 1]>>
            \o RawURLEncodeToString(SubSeq(b, 4, Len(b)))

-----------------------------------------------------------------------------
(* The aspect-ratio classifier *)

Dims == 0..MaxDim

RefPairs == {<<1920, 1080>>, <<1080, 1920>>, <<1000, 999>>, <<100, 100>>}

StreamPairs == (Dims \X Dims) \cup RefPairs

NoProbe == [err |-> "", json |-> FALSE, streams |-> <<>>]

(* What one run of ffprobe can give: err is cmd.Run's error ("exit" an     *)
(* *exec.ExitError, "start" any other error), json says whether stdout     *)
(* unmarshals, streams is the unmarshalled Streams slice.                  *)
ProbeRuns ==
    {[err |-> e, json |-> FALSE, streams |-> <<>>] : e \in {"exit", "start", "none"}}
        \cup {[err |-> "none", json |-> TRUE, streams |-> <<>>]}
        \cup {[err |-> "none", json |-> TRUE,
               streams |-> <<[Width |-> p[1], Height |-> p[2]]>>] : p \in StreamPairs}

getVideoAspectRatioWrongRatio(run) ==
    IF run.err = "exit" THEN [ret |-> "", end |-> "fatal"]
    ELSE IF ~run.json THEN [ret |-> "", end |-> "fatal"]
    ELSE IF Len(run.streams) = 0 THEN [ret |-> "", end |-> "panic"]
    ELSE LET Width == run.streams[1].Width
             Height == run.streams[1].Height IN
         IF Height = 0 THEN [ret |-> "", end |-> "panic"]
         ELSE IF Width * 9 = Height * 16 THEN [ret |-> "16:9", end |-> "return"]
         ELSE IF Width = 0 THEN [ret |-> "", end |-> "panic"]
         ELSE IF Height * 9 = Width * 16 THEN [ret |-> "9:16", end |-> "return"]
         ELSE [ret |-> "other", end |-> "return"]

(* ret is the returned string; end is "return" for a normal return,        *)
(* "fatal" for log.Fatal (os.Exit(1)), "panic" for a run-time panic (index *)
(* out of range on Streams[0], integer division by zero).                  *)
getVideoAspectRatio(run) ==
    IF run.err = "exit" THEN [ret |-> "", end |-> "fatal"]
    ELSE IF ~run.json THEN [ret |-> "", end |-> "fatal"]
    ELSE IF Len(run.streams) = 0 THEN [ret |-> "", end |-> "panic"]
    ELSE LET Width == run.streams[1].Width
             Height == run.streams[1].Height IN
         IF Height = 0 THEN [ret |-> "", end |-> "panic"]
         ELSE IF Width \div Height = 16 \div 9 THEN [ret |-> "16:9", end |-> "return"]
         ELSE IF Width = 0 THEN [ret |-> "", end |-> "panic"]
         ELSE IF Height \div Width = 16 \div 9 THEN [ret |-> "9:16", end |-> "return"]
         ELSE [ret |-> "other", end |-> "return"]

videoTypeOfSwapped(aspectRatio) ==
    CASE aspectRatio = "16:9" -> "portrait"
      [] aspectRatio = "9:16" -> "landscape"
      [] OTHER -> "other"

(* The switch on aspectRatio in handlerUploadVideo. *)
videoTypeOf(aspectRatio) ==
    CASE aspectRatio = "16:9" -> "landscape"
      [] aspectRatio = "9:16" -> "portrait"
      [] OTHER -> "other"

-----------------------------------------------------------------------------
(* Requests *)

(* The value of the Content-Type header of the file part: the media type   *)
(* followed by its parameters; <<>> is a part without the header.          *)
ContentTypes ==
    {<<>>, <<"video/mp4">>, <<"image/png">>, <<"image/jpeg">>, <<"text/plain">>,
     <<"image/png", "name=thumb">>}

(* idOK: the videoID path value parses as a UUID.  cred: "none" is a       *)
(* request without a bearer token, "invalid" a token ValidateJWT rejects,  *)
(* a user the subject of a valid token.  form: "noform" is a body that is  *)
(* no multipart form, "nofile" a form without the file field, "file" a     *)
(* form with the file field, whose Content-Type is contentType.            *)
Forms(others) ==
    [form : others, contentType : {<<>>}] \cup [form : {"file"}, contentType : ContentTypes]

Inputs(others) ==
    {[idOK |-> i, cred |-> c, form |-> f.form, contentType |-> f.contentType] :
        i \in BOOLEAN, c \in {"none", "invalid"} \cup Users, f \in Forms(others)}

VideoInputs == Inputs({"nofile"})

ThumbnailInputs == Inputs({"noform", "nofile"})

NoInput == [idOK |-> FALSE, cred |-> "none", form |-> "nofile", contentType |-> <<>>]

(* A request goroutine: pc is its position, end how it ended ("returned",  *)
(* "panicked", "exit"), responses the status codes written to w, calls the *)
(* stages executed in order with their outcome, puts the keys passed to    *)
(* PutObject, updates the records passed to UpdateVideo, got the record    *)
(* GetVideo returned, defers the deferred calls.                           *)
IdleReq ==
    [pc |-> "idle", kind |-> "", in |-> NoInput, end |-> "",
     responses |-> <<>>, calls |-> <<>>, puts |-> <<>>, updates |-> <<>>,
     got |-> NoVideo, videoMetadata |-> NoVideo, mediaType |-> "",
     probe |-> NoProbe, videoType |-> "", key |-> <<>>,
     fileName |-> <<>>, thumbnailFile |-> "", defers |-> {}]

Call(rq, op, ok) == [rq EXCEPT !.calls = Append(@, [op |-> op, ok |-> ok])]

respondWithError(rq, code) == [rq EXCEPT !.responses = Append(@, code)]

respondWithJSON(rq, code) == [rq EXCEPT !.responses = Append(@, code)]

(* A return statement of a handler. *)
Return(rq) == [rq EXCEPT !.pc = "done", !.end = "returned"]

(* A panic in the handler goroutine: the deferred calls run, net/http      *)
(* recovers and drops the connection without a response.                   *)
Panic(rq) == [rq EXCEPT !.pc = "done", !.end = "panicked"]

(* log.Fatal: os.Exit(1), no deferred call runs. *)
Fatal(rq) == [rq EXCEPT !.pc = "done", !.end = "exit"]

(* mime.ParseMediaType on the header value: an empty value is an error,    *)
(* otherwise the media type is returned without its parameters.            *)
ParseMediaType(v) ==
    IF v = <<>> THEN [mediaType |-> "", ok |-> FALSE]
    ELSE [mediaType |-> Head(v), ok |-> TRUE]

mimeToExt(mediaType) ==
    CASE mediaType = "image/png" -> ".png"
      [] mediaType = "image/jpeg" -> ".jpg"
      [] OTHER -> ""

VideoTypeAllowedAny(mediaType) == TRUE

(* mediaType != "video/mp4" is the rejection in handlerUploadVideo. *)
VideoTypeAllowed(mediaType) == mediaType = "video/mp4"

(* The condition whose negation rejects in handlerUploadThumbnail. *)
ThumbnailTypeAllowed(mediaType) == mediaType = "image/jpeg" \/ mediaType = "image/png"

-----------------------------------------------------------------------------
(* External collaborators *)

(* cfg.db.GetVideo: the record of the store. *)
GetVideo(db) == db

(* cfg.db.UpdateVideo: one atomic write of the whole record passed in. *)
UpdateVideo(db, video) == video

(* cfg.s3Client.PutObject: the object under key is created or replaced. *)
PutObject(objects, key, contentType) ==
    {o \in objects : o.key # key} \cup {[key |-> key, contentType |-> contentType]}

(* The file name is created or replaced with the given state: "empty"      *)
(* after os.Create, "partial" after a failed io.Copy, "complete" after a   *)
(* full one.                                                               *)
WriteAsset(files, name, state) ==
    {f \in files : f.name # name} \cup {[name |-> name, state |-> state]}

-----------------------------------------------------------------------------
(* handlerUploadVideo, step by step *)

(* Lines 27-74: id, credentials, record lookup, ownership, form file and   *)
(* media type.                                                             *)
handlerUploadVideoIntake(rq, dbOK, db) ==
    LET in == rq.in
        r1 == Call(rq, "uuid.Parse", in.idOK)
        r2 == Call(r1, "GetBearerToken", in.cred # "none")
        r3 == Call(r2, "ValidateJWT", in.cred # "invalid")
        r4 == Call(r3, "GetVideo", dbOK)
        r5 == Call([r4 EXCEPT !.got = GetVideo(db), !.videoMetadata = GetVideo(db)],
                   "owner", in.cred = GetVideo(db).userID)
        r6 == Call(r5, "FormFile", in.form = "file")
        mt == ParseMediaType(in.contentType)
        r7 == Call([r6 EXCEPT !.defers = @ \cup {"file.Close"}], "ParseMediaType", mt.ok)
        r8 == Call([r7 EXCEPT !.mediaType = mt.mediaType],
                   "mediaType", VideoTypeAllowed(mt.mediaType))
    IN  IF ~in.idOK THEN Return(respondWithError(r1, 400))
        ELSE IF in.cred = "none" THEN Return(respondWithError(r2, 401))
        ELSE IF in.cred = "invalid" THEN Return(respondWithError(r3, 401))
        ELSE IF ~dbOK THEN Return(respondWithError(r4, 500))
        ELSE IF in.cred # r5.videoMetadata.userID THEN Return(respondWithError(r5, 401))
        ELSE IF in.form # "file" THEN Return(respondWithError(r6, 400))
        ELSE IF ~mt.ok THEN Return(respondWithError(r7, 400))
        ELSE IF ~VideoTypeAllowed(mt.mediaType) THEN Return(respondWithError(r8, 400))
        ELSE [r8 EXCEPT !.pc = "createTemp"]

(* Lines 76-83: os.CreateTemp and the two deferred calls. *)
handlerUploadVideoCreateTemp(rq, ok) ==
    LET r1 == Call(rq, "CreateTemp", ok) IN
    IF ~ok THEN Return(respondWithError(r1, 500))
    ELSE [r1 EXCEPT !.pc = "copy", !.defers = @ \cup {"os.Remove", "tempFile.Close"}]

(* Lines 85-94: io.Copy into the temporary file, then Seek to its start. *)
handlerUploadVideoCopy(rq, copyOK, seekOK) ==
    LET r1 == Call(rq, "Copy", copyOK)
        r2 == Call(r1, "Seek", seekOK)
    IN  IF ~copyOK THEN Return(respondWithError(r1, 500))
        ELSE IF ~seekOK THEN Return(respondWithError(r2, 500))
        ELSE [r2 EXCEPT !.pc = "probe"]

(* Lines 96-111: the classification.  getVideoAspectRatio never returns a  *)
(* non-nil error: both of its error branches call log.Fatal first.         *)
handlerUploadVideoProbe(rq, run) ==
    LET res == getVideoAspectRatio(run)
        r1 == Call([rq EXCEPT !.probe = run], "getVideoAspectRatio", res.end = "return")
    IN  IF res.end = "fatal" THEN Fatal(r1)
        ELSE IF res.end = "panic" THEN Panic(r1)
        ELSE [r1 EXCEPT !.pc = "put", !.videoType = videoTypeOf(res.ret)]

(* key := videoType + "/" + hex.EncodeToString(b) + ".mp4" *)
VideoKey(videoType, b) == <<videoType, "/">> \o EncodeToString(b) \o <<".mp4">>

VideoURLSwapped(key) == <<"https://", s3Region, ".s3.", s3Bucket, ".amazonaws.com/">> \o key

(* fmt.Sprintf("https://%s.s3.%s.amazonaws.com/%s", bucket, region, key) *)
VideoURL(key) == <<"https://", s3Bucket, ".s3.", s3Region, ".amazonaws.com/">> \o key

handlerUploadVideoPutNoReturn(rq, randOK, b, putOK) ==
    LET r1 == Call(rq, "rand.Read", randOK)
        key == VideoKey(rq.videoType, b)
        r2 == Call([r1 EXCEPT !.key = key, !.puts = Append(@, key)], "PutObject", putOK)
    IN  IF ~randOK THEN Return(respondWithError(r1, 500))
        ELSE IF ~putOK THEN [respondWithError(r2, 500) EXCEPT !.pc = "update"]
        ELSE [r2 EXCEPT !.pc = "update"]

(* Lines 113-132: the random key and PutObject. *)
handlerUploadVideoPut(rq, randOK, b, putOK) ==
    LET r1 == Call(rq, "rand.Read", randOK)
        key == VideoKey(rq.videoType, b)
        r2 == Call([r1 EXCEPT !.key = key, !.puts = Append(@, key)], "PutObject", putOK)
    IN  IF ~randOK THEN Return(respondWithError(r1, 500))
        ELSE IF ~putOK THEN Return(respondWithError(r2, 500))
        ELSE [r2 EXCEPT !.pc = "update"]

(* Lines 134-141: the URL, UpdateVideo and the response. *)
handlerUploadVideoUpdate(rq, ok) ==
    LET video == [rq.videoMetadata EXCEPT !.videoURL = VideoURL(rq.key)]
        r1 == Call([rq EXCEPT !.videoMetadata = video, !.updates = Append(@, video)],
                   "UpdateVideo", ok)
    IN  IF ~ok THEN Return(respondWithError(r1, 400))
        ELSE Return(respondWithJSON(r1, 200))

-----------------------------------------------------------------------------
(* handlerUploadThumbnail, step by step *)

(* Lines 23-85: id, credentials, multipart form, form file, media type,    *)
(* record lookup, ownership, extension.                                    *)
handlerUploadThumbnailIntake(rq, dbOK, db) ==
    LET in == rq.in
        r1 == Call(rq, "uuid.Parse", in.idOK)
        r2 == Call(r1, "GetBearerToken", in.cred # "none")
        r3 == Call(r2, "ValidateJWT", in.cred # "invalid")
        r4 == Call(r3, "ParseMultipartForm", in.form # "noform")
        r5 == Call(r4, "FormFile", in.form = "file")
        mt == ParseMediaType(in.contentType)
        r6 == Call([r5 EXCEPT !.defers = @ \cup {"file.Close"}], "ParseMediaType", mt.ok)
        r7 == Call([r6 EXCEPT !.mediaType = mt.mediaType],
                   "mediaType", ThumbnailTypeAllowed(mt.mediaType))
        r8 == Call(r7, "GetVideo", dbOK)
        r9 == Call([r8 EXCEPT !.got = GetVideo(db), !.videoMetadata = GetVideo(db)],
                   "owner", in.cred = GetVideo(db).userID)
        r10 == Call(r9, "mimeToExt", mimeToExt(mt.mediaType) # "")
    IN  IF ~in.idOK THEN Return(respondWithError(r1, 400))
        ELSE IF in.cred = "none" THEN Return(respondWithError(r2, 401))
        ELSE IF in.cred = "invalid" THEN Return(respondWithError(r3, 401))
        ELSE IF in.form = "noform" THEN Return(respondWithError(r4, 400))
        ELSE IF in.form # "file" THEN Return(respondWithError(r5, 400))
        ELSE IF ~mt.ok THEN Return(respondWithError(r6, 400))
        ELSE IF ~ThumbnailTypeAllowed(mt.mediaType) THEN Return(respondWithError(r7, 400))
        ELSE IF ~dbOK THEN Return(respondWithError(r8, 500))
        ELSE IF in.cred # r9.videoMetadata.userID THEN Return(respondWithError(r9, 401))
        ELSE IF mimeToExt(mt.mediaType) = "" THEN Return(respondWithError(r10, 400))
        ELSE [r10 EXCEPT !.pc = "create"]

(* fileName := key + fileExtension, key the base64 of b *)
ThumbnailFileName(b, fileExtension) == RawURLEncodeToString(b) \o <<fileExtension>>

(* fmt.Sprintf("http://localhost:%s/assets/%s", cfg.port, fileName) *)
ThumbnailURL(fileName) == <<"http://localhost:", port, "/assets/">> \o fileName

(* Lines 87-97: the random file name and os.Create.  The error of          *)
(* rand.Read is dropped; after a failed os.Create the error response is    *)
(* written and the handler goes on with a nil thumbnailFile.               *)
handlerUploadThumbnailCreate(rq, randOK, b, ok) ==
    LET bytes == IF randOK THEN b ELSE ZeroBytes
        r1 == Call(rq, "rand.Read", randOK)
        r2 == Call([r1 EXCEPT !.fileName = ThumbnailFileName(bytes, mimeToExt(rq.mediaType))],
                   "Create", ok)
        r3 == IF ok THEN [r2 EXCEPT !.thumbnailFile = "open"]
              ELSE [respondWithError(r2, 500) EXCEPT !.thumbnailFile = "nil"]
    IN  [r3 EXCEPT !.pc = "copy", !.defers = @ \cup {"thumbnailFile.Close"}]

(* The outcomes of io.Copy(thumbnailFile, file).  Into a nil os.File it    *)
(* always fails: File.ReadFrom starts with checkValid, which returns       *)
(* ErrInvalid for a nil receiver.                                          *)
CopyOutcomes(thumbnailFile) == IF thumbnailFile = "nil" THEN {FALSE} ELSE BOOLEAN

(* Lines 99-103: io.Copy into the asset file. *)
handlerUploadThumbnailCopy(rq, ok) ==
    LET r1 == Call(rq, "Copy", ok) IN
    IF ~ok THEN Return(respondWithError(r1, 500))
    ELSE [r1 EXCEPT !.pc = "update"]

(* Lines 105-114: the URL, UpdateVideo and the response. *)
handlerUploadThumbnailUpdate(rq, ok) ==
    LET video == [rq.videoMetadata EXCEPT !.thumbnailURL = ThumbnailURL(rq.fileName)]
        r1 == Call([rq EXCEPT !.videoMetadata = video, !.updates = Append(@, video)],
                   "UpdateVideo", ok)
    IN  IF ~ok THEN Return(respondWithError(r1, 400))
        ELSE Return(respondWithJSON(r1, 200))

-----------------------------------------------------------------------------
(* The server *)

Init ==
    /\ store = InitialVideo
    /\ s3 = {}
    /\ tempFiles = {}
    /\ assets = {}
    /\ alive = TRUE
    /\ req = [r \in Reqs |-> IdleReq]

(* Request slots are taken in order: the slots are interchangeable. *)
CanStart(r) ==
    /\ alive
    /\ req[r].pc = "idle"
    /\ \A q \in Reqs : q < r => req[q].pc # "idle"

At(r, kind, pc) == alive /\ req[r].kind = kind /\ req[r].pc = pc

(* The deferred os.Remove(tempFile.Name()) runs when the handler returns   *)
(* or panics, not when the process exits.                                  *)
RunDefers(r, new, files) ==
    IF new.end \in {"returned", "panicked"} /\ "os.Remove" \in new.defers
    THEN files \ {r} ELSE files

(* The request goroutine r moves to new. *)
Moves(r, new) ==
    /\ req' = [req EXCEPT ![r] = new]
    /\ alive' = (new.end # "exit")

UploadVideo(r) ==
    /\ CanStart(r)
    /\ \E in \in VideoInputs, dbOK \in BOOLEAN :
         Moves(r, handlerUploadVideoIntake(
                      [IdleReq EXCEPT !.kind = "video", !.in = in], dbOK, store))
    /\ UNCHANGED <<store, s3, tempFiles, assets>>

VideoCreateTemp(r) ==
    /\ At(r, "video", "createTemp")
    /\ \E ok \in BOOLEAN :
         /\ Moves(r, handlerUploadVideoCreateTemp(req[r], ok))
         /\ tempFiles' = IF ok THEN tempFiles \cup {r} ELSE tempFiles
    /\ UNCHANGED <<store, s3, assets>>

VideoCopy(r) ==
    /\ At(r, "video", "copy")
    /\ \E copyOK \in BOOLEAN, seekOK \in BOOLEAN :
         LET new == handlerUploadVideoCopy(req[r], copyOK, seekOK) IN
         /\ Moves(r, new)
         /\ tempFiles' = RunDefers(r, new, tempFiles)
    /\ UNCHANGED <<store, s3, assets>>

VideoProbe(r) ==
    /\ At(r, "video", "probe")
    /\ \E run \in ProbeRuns :
         LET new == handlerUploadVideoProbe(req[r], run) IN
         /\ Moves(r, new)
         /\ tempFiles' = RunDefers(r, new, tempFiles)
    /\ UNCHANGED <<store, s3, assets>>

VideoPut(r) ==
    /\ At(r, "video", "put")
    /\ \E randOK \in BOOLEAN, seed \in Seeds, putOK \in BOOLEAN :
         LET new == handlerUploadVideoPut(req[r], randOK, RandBytes(seed), putOK) IN
         /\ Moves(r, new)
         /\ s3' = IF randOK /\ putOK THEN PutObject(s3, new.key, new.mediaType) ELSE s3
         /\ tempFiles' = RunDefers(r, new, tempFiles)
    /\ UNCHANGED <<store, assets>>

VideoUpdate(r) ==
    /\ At(r, "video", "update")
    /\ \E ok \in BOOLEAN :
         LET new == handlerUploadVideoUpdate(req[r], ok) IN
         /\ Moves(r, new)
         /\ store' = IF ok THEN UpdateVideo(store, new.videoMetadata) ELSE store
         /\ tempFiles' = RunDefers(r, new, tempFiles)
    /\ UNCHANGED <<s3, assets>>

UploadThumbnail(r) ==
    /\ CanStart(r)
    /\ \E in \in ThumbnailInputs, dbOK \in BOOLEAN :
         Moves(r, handlerUploadThumbnailIntake(
                      [IdleReq EXCEPT !.kind = "thumbnail", !.in = in], dbOK, store))
    /\ UNCHANGED <<store, s3, tempFiles, assets>>

ThumbnailCreate(r) ==
    /\ At(r, "thumbnail", "create")
    /\ \E randOK \in BOOLEAN, seed \in Seeds, ok \in BOOLEAN :
         LET new == handlerUploadThumbnailCreate(req[r], randOK, RandBytes(seed), ok) IN
         /\ Moves(r, new)
         /\ assets' = IF ok THEN WriteAsset(assets, new.fileName, "empty") ELSE assets
    /\ UNCHANGED <<store, s3, tempFiles>>

ThumbnailCopy(r) ==
    /\ At(r, "thumbnail", "copy")
    /\ \E ok \in CopyOutcomes(req[r].thumbnailFile) :
         LET new == handlerUploadThumbnailCopy(req[r], ok) IN
         /\ Moves(r, new)
         /\ assets' = IF req[r].thumbnailFile = "nil" THEN assets
                      ELSE WriteAsset(assets, new.fileName,
                                      IF ok THEN "complete" ELSE "partial")
    /\ UNCHANGED <<store, s3, tempFiles>>

ThumbnailUpdate(r) ==
    /\ At(r, "thumbnail", "update")
    /\ \E ok \in BOOLEAN :
         LET new == handlerUploadThumbnailUpdate(req[r], ok) IN
         /\ Moves(r, new)
         /\ store' = IF ok THEN UpdateVideo(store, new.videoMetadata) ELSE store
    /\ UNCHANGED <<s3, tempFiles, assets>>

Next ==
    \E r \in Reqs :
        \/ UploadVideo(r)
        \/ VideoCreateTemp(r)
        \/ VideoCopy(r)
        \/ VideoProbe(r)
        \/ VideoPut(r)
        \/ VideoUpdate(r)
        \/ UploadThumbnail(r)
        \/ ThumbnailCreate(r)
        \/ ThumbnailCopy(r)
        \/ ThumbnailUpdate(r)

Spec == Init /\ [][Next]_vars

-----------------------------------------------------------------------------
(* Vocabulary of the properties *)

Started(r) == req[r].pc # "idle"

Done(r) == req[r].pc = "done"

(* The request is over: its handler ended, or the process exited under it. *)
Over(r) == Done(r) \/ (Started(r) /\ ~alive)

Succeeded(r) == Done(r) /\ req[r].end = "returned" /\ req[r].responses = <<200>>

(* Stage op was executed by rq with outcome ok. *)
Did(rq, op, ok) == \E i \in 1..Len(rq.calls) : rq.calls[i] = [op |-> op, ok |-> ok]

Reached(rq, op) == \E i \in 1..Len(rq.calls) : rq.calls[i].op = op

PersistenceStages == {"CreateTemp", "Create", "Copy", "PutObject", "UpdateVideo"}

(* The allow-lists as the specification words them. *)
AllowList(kind) ==
    IF kind = "video" THEN {"video/mp4"} ELSE {"image/png", "image/jpeg"}

HasFilePart(rq) == rq.in.form = "file"

(* The file part declares no content type, or one whose media type is not  *)
(* on the allow-list.                                                      *)
BadType(rq) ==
    /\ HasFilePart(rq)
    /\ \A mediaType \in AllowList(rq.kind) :
         rq.in.contentType = <<>> \/ rq.in.contentType[1] # mediaType

-----------------------------------------------------------------------------
(* C1 *)

(* The caller is authenticated, the record exists and the caller is not    *)
(* its owner.                                                              *)
NonOwner(rq) ==
    /\ rq.in.idOK
    /\ rq.in.cred \in Users \ {store.userID}
    /\ ~Did(rq, "GetVideo", FALSE)

(* C1: in both flows a request of a caller who is not the owner of the     *)
(* record ends with status 401 and never calls UpdateVideo, whatever its   *)
(* form and file part are.                                                 *)
C1_NonOwnerAlways401 ==
    \A r \in Reqs :
        (Done(r) /\ NonOwner(req[r])) =>
            /\ req[r].responses = <<401>>
            /\ req[r].updates = <<>>

-----------------------------------------------------------------------------
(* C2 *)

(* Every check the handler makes before it looks at the media type passes. *)
ReachesTypeCheck(rq) ==
    /\ rq.in.idOK
    /\ rq.in.cred \in Users
    /\ rq.kind = "video" => (rq.in.cred = store.userID /\ Did(rq, "GetVideo", TRUE))

NoPersistence(rq) ==
    /\ rq.puts = <<>>
    /\ rq.updates = <<>>
    /\ \A op \in PersistenceStages : ~Reached(rq, op)

(* C2 as stated: a request whose file part declares a content type outside *)
(* the allow-list always ends with status 400, without any persistence     *)
(* step and without UpdateVideo.                                           *)
C2_BadTypeAlways400 ==
    \A r \in Reqs :
        (Done(r) /\ BadType(req[r])) =>
            /\ req[r].responses = <<400>>
            /\ NoPersistence(req[r])

(* C2 amended: such a request never reaches a persistence step or          *)
(* UpdateVideo and ends with one error response; the status is 400         *)
(* whenever the checks made before the media-type check pass, and the      *)
(* status of the earlier failing check (400, 401 or 500) otherwise.        *)
C2_BadTypeRejected ==
    \A r \in Reqs :
        (Started(r) /\ BadType(req[r])) =>
            /\ Done(r) /\ req[r].end = "returned"
            /\ NoPersistence(req[r])
            /\ req[r].responses \in {<<400>>, <<401>>, <<500>>}
            /\ ReachesTypeCheck(req[r]) => req[r].responses = <<400>>

(* A rejected video upload and a rejected thumbnail upload, both past the  *)
(* earlier checks.                                                         *)
C2_Witness ==
    \E v \in Reqs, t \in Reqs :
        /\ req[v].kind = "video" /\ req[t].kind = "thumbnail"
        /\ BadType(req[v]) /\ BadType(req[t])
        /\ ReachesTypeCheck(req[v]) /\ ReachesTypeCheck(req[t])
        /\ req[v].responses = <<400>> /\ req[t].responses = <<400>>

-----------------------------------------------------------------------------
(* C3 and C4 *)

(* The prober ran for rq and its first stream is w by h. *)
Probed(rq, w, h) ==
    /\ rq.probe.err = "none" /\ rq.probe.json
    /\ Len(rq.probe.streams) > 0
    /\ rq.probe.streams[1] = [Width |-> w, Height |-> h]

(* The rule of the specification, for positive w and h. *)
Label(w, h) ==
    IF w \div h = 1 THEN "landscape"
    ELSE IF h \div w = 1 THEN "portrait"
    ELSE "other"

(* rq classified its video as label, and every key it built or stored     *)
(* begins with label.                                                      *)
ClassifiedAs(rq, label) ==
    /\ rq.pc \in {"put", "update", "done"}
    /\ rq.end \in {"", "returned"}
    /\ rq.videoType = label
    /\ rq.key # <<>> => rq.key[1] = label
    /\ \A i \in 1..Len(rq.puts) : rq.puts[i][1] = label /\ rq.puts[i][2] = "/"

(* C3: for a first stream of positive width and height the classification  *)
(* is landscape iff width / height = 1, portrait iff it is not landscape   *)
(* and height / width = 1, other otherwise (truncating division), and the  *)
(* prefix of the storage key is that label.                                *)
C3_Classification ==
    \A r \in Reqs : \A p \in StreamPairs :
        (p[1] > 0 /\ p[2] > 0 /\ Probed(req[r], p[1], p[2])) =>
            ClassifiedAs(req[r], Label(p[1], p[2]))

(* A portrait video and a video that is neither, both stored. *)
C3_Witness ==
    \E r \in Reqs, q \in Reqs :
        /\ Probed(req[r], 2, 3) /\ Succeeded(r)
        /\ [key |-> req[r].key, contentType |-> "video/mp4"] \in s3
        /\ req[r].key[1] = "portrait"
        /\ Probed(req[q], 3, 1) /\ Succeeded(q)
        /\ req[q].key[1] = "other"

(* C4 as stated: the four reference pairs, and near-square videos (sides   *)
(* differing by less than a factor of two) classified other.               *)
C4_ReferencePairsNearSquareOther ==
    \A r \in Reqs :
        /\ Probed(req[r], 1920, 1080) => ClassifiedAs(req[r], "landscape")
        /\ Probed(req[r], 1080, 1920) => ClassifiedAs(req[r], "portrait")
        /\ Probed(req[r], 1000, 999) => ClassifiedAs(req[r], "other")
        /\ Probed(req[r], 100, 100) => ClassifiedAs(req[r], "other")
        /\ \A p \in StreamPairs :
             (/\ p[1] > 0 /\ p[2] > 0
              /\ p[1] < 2 * p[2] /\ p[2] < 2 * p[1]
              /\ Probed(req[r], p[1], p[2])) => ClassifiedAs(req[r], "other")

(* C4 amended: (1920,1080), (1000,999) and (100,100) are landscape,        *)
(* (1080,1920) is portrait; a video whose sides are equal or differ by     *)
(* less than a factor of two is landscape when it is at least as wide as   *)
(* tall and portrait when it is taller than wide; other is the class of    *)
(* the videos whose sides differ by a factor of two or more.               *)
C4_ReferencePairsNearSquareNotOther ==
    \A r \in Reqs :
        /\ Probed(req[r], 1920, 1080) => ClassifiedAs(req[r], "landscape")
        /\ Probed(req[r], 1080, 1920) => ClassifiedAs(req[r], "portrait")
        /\ Probed(req[r], 1000, 999) => ClassifiedAs(req[r], "landscape")
        /\ Probed(req[r], 100, 100) => ClassifiedAs(req[r], "landscape")
        /\ \A p \in StreamPairs :
             (p[1] > 0 /\ p[2] > 0 /\ Probed(req[r], p[1], p[2])) =>
                 /\ (p[2] <= p[1] /\ p[1] < 2 * p[2]) => ClassifiedAs(req[r], "landscape")
                 /\ (p[1] < p[2] /\ p[2] < 2 * p[1]) => ClassifiedAs(req[r], "portrait")
                 /\ (p[1] >= 2 * p[2] \/ p[2] >= 2 * p[1]) => ClassifiedAs(req[r], "other")

(* The near-square reference pair and the square one, both stored under    *)
(* landscape.                                                              *)
C4_Witness ==
    \E r \in Reqs, q \in Reqs :
        /\ Probed(req[r], 1000, 999) /\ Succeeded(r) /\ req[r].key[1] = "landscape"
        /\ Probed(req[q], 100, 100) /\ Succeeded(q) /\ req[q].key[1] = "landscape"

-----------------------------------------------------------------------------
(* C5 and C6 *)

(* The prober ran for rq and the classification failed: a non-zero exit,   *)
(* output that is not the expected JSON, or an empty stream list.          *)
ClassificationFailed(rq) ==
    /\ rq.probe.err # ""
    /\ \/ rq.probe.err = "exit"
       \/ ~rq.probe.json
       \/ rq.probe.streams = <<>>

(* C5: a failed classification ends the request with a handled 500: the    *)
(* handler returns, the process goes on, PutObject and UpdateVideo are not *)
(* called.                                                                 *)
C5_ClassificationFailureHandled ==
    \A r \in Reqs :
        ClassificationFailed(req[r]) =>
            /\ alive
            /\ Done(r) /\ req[r].end = "returned"
            /\ req[r].responses = <<500>>
            /\ req[r].puts = <<>> /\ req[r].updates = <<>>

(* C6: once a video upload request is over, the temporary file it created  *)
(* is gone, on every exit path.                                            *)
C6_TempFileRemoved ==
    \A r \in Reqs : Over(r) => r \notin tempFiles

-----------------------------------------------------------------------------
(* C7 *)

HexDigits == {hextable[i] : i \in 1..Len(hextable)}

(* key is {label}/{64 hex characters}.mp4 *)
WellFormedVideoKey(key) ==
    /\ Len(key) = 2 * KeyLen + 3
    /\ key[1] \in {"landscape", "portrait", "other"}
    /\ key[2] = "/"
    /\ \A i \in 3..(2 * KeyLen + 2) : key[i] \in HexDigits
    /\ key[2 * KeyLen + 3] = ".mp4"

(* C7: a video upload that ends with 200 has stored exactly one object,    *)
(* under a key {classification}/{64 hex characters}.mp4, and has called    *)
(* UpdateVideo once, with the record GetVideo returned changed in videoURL *)
(* alone, to https://{bucket}.s3.{region}.amazonaws.com/{key}.             *)
C7_SuccessfulVideoUpload ==
    \A r \in Reqs :
        (req[r].kind = "video" /\ Done(r) /\ 200 \in {req[r].responses[i] : i \in 1..Len(req[r].responses)}) =>
            /\ Len(req[r].puts) = 1
            /\ WellFormedVideoKey(req[r].puts[1])
            /\ req[r].puts[1][1] = req[r].videoType
            /\ \E o \in s3 : o.key = req[r].puts[1]
            /\ Len(req[r].updates) = 1
            /\ req[r].updates[1] =
                 [req[r].got EXCEPT !.videoURL =
                     <<"https://", s3Bucket, ".s3.", s3Region, ".amazonaws.com/">>
                         \o req[r].puts[1]]

(* A successful video upload on a record that already had both URLs. *)
C7_Witness ==
    \E r \in Reqs :
        /\ req[r].kind = "video" /\ Succeeded(r)
        /\ req[r].got.videoURL # None
        /\ req[r].updates[1].videoURL # req[r].got.videoURL

-----------------------------------------------------------------------------
(* C8 *)

(* Stage i of rq failed. *)
FailedAt(rq, i) == i \in 1..Len(rq.calls) /\ ~rq.calls[i].ok

(* C8: the first stage that fails ends the request: one response, no later *)
(* stage, no UpdateVideo; in particular after a failed creation of the     *)
(* thumbnail file there is one 500 response, no copy and no update.        *)
C8_FirstFailureEndsRequest ==
    \A r \in Reqs :
        /\ \A i \in 1..Len(req[r].calls) :
             FailedAt(req[r], i) =>
                 /\ i = Len(req[r].calls)
                 /\ Done(r) /\ req[r].end = "returned"
                 /\ Len(req[r].responses) = 1
                 /\ req[r].calls[i].op # "UpdateVideo" => req[r].updates = <<>>
        /\ Done(r) /\ req[r].end = "returned" => Len(req[r].responses) = 1
        /\ Did(req[r], "Create", FALSE) =>
             /\ req[r].responses = <<500>>
             /\ ~Reached(req[r], "Copy")
             /\ req[r].updates = <<>>

-----------------------------------------------------------------------------
(* C9 *)

(* C9: under every interleaving of uploads by the owner on one record the  *)
(* URL fields are only ever filled in, a video upload changing videoURL    *)
(* alone and a thumbnail upload thumbnailURL alone: once a video upload    *)
(* and a thumbnail upload have both returned 200, the store holds the URL  *)
(* each of them returned.                                                  *)
C9_BothUploadsKept ==
    \A v \in Reqs, t \in Reqs :
        (/\ req[v].kind = "video" /\ Succeeded(v)
         /\ req[t].kind = "thumbnail" /\ Succeeded(t)) =>
            /\ store.videoURL = req[v].videoMetadata.videoURL
            /\ store.thumbnailURL = req[t].videoMetadata.thumbnailURL
            /\ store.videoURL # None /\ store.thumbnailURL # None

-----------------------------------------------------------------------------
(* C10 *)

(* Stage op succeeded in rq before rq called UpdateVideo. *)
SucceededBeforeUpdate(rq, op) ==
    \E i \in 1..Len(rq.calls), j \in 1..Len(rq.calls) :
        /\ i < j
        /\ rq.calls[i] = [op |-> op, ok |-> TRUE]
        /\ rq.calls[j].op = "UpdateVideo"

(* C10: UpdateVideo is called with a new videoURL only after PutObject for *)
(* that key succeeded in the same request, and with a new thumbnailURL     *)
(* only after the asset file of that name was created and the copy into it *)
(* returned without error in the same request.                             *)
C10_UrlsReferToPersistedAssets ==
    \A r \in Reqs : \A i \in 1..Len(req[r].updates) :
        LET video == req[r].updates[i] IN
        /\ video.videoURL # req[r].got.videoURL =>
             /\ SucceededBeforeUpdate(req[r], "PutObject")
             /\ \E k \in 1..Len(req[r].puts) :
                  /\ video.videoURL =
                       <<"https://", s3Bucket, ".s3.", s3Region, ".amazonaws.com/">>
                           \o req[r].puts[k]
                  /\ \E o \in s3 : o.key = req[r].puts[k]
        /\ video.thumbnailURL # req[r].got.thumbnailURL =>
             /\ SucceededBeforeUpdate(req[r], "Create")
             /\ SucceededBeforeUpdate(req[r], "Copy")
             /\ ~Did(req[r], "Create", FALSE)
             /\ video.thumbnailURL =
                  <<"http://localhost:", port, "/assets/">> \o req[r].fileName
             /\ \E f \in assets : f.name = req[r].fileName

(* A thumbnail upload and a video upload that both succeeded, each having  *)
(* written its new URL after its asset was persisted.                      *)
C10_Witness ==
    \E t \in Reqs, v \in Reqs :
        /\ req[t].kind = "thumbnail" /\ Succeeded(t)
        /\ req[t].updates[1].thumbnailURL # req[t].got.thumbnailURL
        /\ [name |-> req[t].fileName, state |-> "complete"] \in assets
        /\ req[v].kind = "video" /\ Succeeded(v)
        /\ req[v].updates[1].videoURL # req[v].got.videoURL

====
